---- MODULE Spec2Model ----
(***************************************************************************)
(* The Watcher of piecegift/watch (src/watch.go, second revision, lines    *)
(* 215-521): one neutrino ChainService + walletdb pair, one Rescan, the    *)
(* list of watched addresses, and the restart sequence run by the error    *)
(* listener goroutine that StartWatching spawns.                           *)
(*                                                                         *)
(* Processes: the caller (API calls of the main goroutine), the closer    *)
(* (Close, which cmd/main runs from its signal goroutine), and one error   *)
(* listener goroutine per Rescan (listener l belongs to session l).        *)
(***************************************************************************)
EXTENDS Integers, Sequences, FiniteSets, TLC

\* ---------------------------------------------------------------- bounds
MaxSessions == 4     \* Rescan sessions ever created
MaxPairs == 3        \* ChainService + walletdb pairs ever constructed
MaxAdds == 1         \* AddAddresses calls of the caller
MaxAddsGrow == 2     \* AddAddresses calls of the caller of GrowSpec
MaxBatch == 1        \* addresses in one AddAddresses call
MaxStarts == 2       \* StartWatching calls of the caller
MaxFailures == 1     \* failures of the calls into neutrino, walletdb and os
TipHeight == 1       \* height at which a ChainService reports IsCurrent
MaxStartBlock == 1   \* largest startBlock the caller passes
MaxOutputs == 3      \* outputs of a transaction given to PrepareTxOutputs
MaxValue == 2        \* largest value of an output
MaxBest == 3         \* highest block the FullWatcher's engine comes to know
MaxFullStart == 1    \* largest startBlock given to FullWatcher.StartWatching
MaxFullHeight == 5   \* the FullWatcher's loop is followed up to this height

Nil == 0

\* Address strings the caller passes: the first two decode, "x" does not.
AddrNames == <<"a", "b">>
AddrStrings == {"a", "x"}
\* What the caller passes to StartWatching: a start block, and handlers that
\* differ from one start block to the next.
Handlers == <<"h0", "h1", "h2">>
StartBlocks == 0..MaxStartBlock
StartArgs == {[startBlock |-> b, handlers |-> Handlers[b + 1]] : b \in StartBlocks}

Listeners == 1..MaxSessions
Pairs == 1..MaxPairs
CloserId == MaxSessions + 1
Procs == 1..CloserId

Batches == UNION {[1..n -> AddrStrings] : n \in 1..MaxBatch}

VARIABLES
  cs, db, rescan, quitChan,       \* Watcher handles (Nil or an id)
  addresses, fullClose, mu, restarting,
  engines, stores, sessions, disk, \* the external objects and the directory
  pc, largs, lerr, snap, gaveUp, made, \* listener goroutines and the closer
  callerPc, lastAdd, lastStart, closeResult,
  crashed, accepted, nAdds, nStarts, nFail,
  wfs,                             \* the caller's WaitForSync call
  tx, result,                      \* PrepareTxOutputs: its argument and return
  fw                               \* the FullWatcher of the tests

watcher == <<cs, db, rescan, quitChan, addresses, fullClose, mu, restarting>>
world == <<engines, stores, sessions, disk>>
procs == <<pc, largs, lerr, snap, gaveUp, made, callerPc, closeResult>>
hist == <<lastAdd, lastStart, crashed, accepted, nAdds, nStarts>>
aux == <<wfs, tx, result, fw>>
vars == <<watcher, world, procs, hist, nFail, aux>>

\* ---------------------------------------------------- PrepareTxOutputs
\* The pkScript of an output: one that pays address "a" or "b", one that
\* txscript.ParsePkScript rejects, and one that parses but for which
\* PkScript.Address returns an error.
Scripts == {"pay-a", "pay-b", "unparsable", "no-address"}
TxOuts == [pkScript : Scripts, value : 0..MaxValue]
Txs == UNION {[1..n -> TxOuts] : n \in 0..MaxOutputs}

\* txscript.ParsePkScript followed by pkScript.Address and EncodeAddress
\* (src/tx.go lines 18-26): the address string, or an error.
ScriptAddress(s) ==
  IF s = "pay-a" THEN [err |-> FALSE, addr |-> "a"]
  ELSE IF s = "pay-b" THEN [err |-> FALSE, addr |-> "b"]
  ELSE [err |-> TRUE, addr |-> ""]

\* result[a] += v on a Go map (line 26): a missing key counts as 0. The
\* values are amounts of one transaction, whose sum the consensus rules keep
\* below 2^63, so the int64 addition does not wrap.
AddTo(m, a, v) ==
  [k \in DOMAIN m \cup {a} |->
     IF k = a THEN (IF a \in DOMAIN m THEN m[a] ELSE 0) + v ELSE m[k]]
SetTo(m, a, v) ==
  [k \in DOMAIN m \cup {a} |-> IF k = a THEN v ELSE m[k]]

\* The loop of lines 17-27 from output i on, with the map built so far.
RECURSIVE TxLoop(_, _, _)
TxLoop(outs, i, m) ==
  IF i > Len(outs) THEN m
  ELSE IF ScriptAddress(outs[i].pkScript).err THEN TxLoop(outs, i + 1, m)
  ELSE TxLoop(outs, i + 1,
              AddTo(m, ScriptAddress(outs[i].pkScript).addr, outs[i].value))

RECURSIVE TxLoopOverwrite(_, _, _)
TxLoopOverwrite(outs, i, m) ==
  IF i > Len(outs) THEN m
  ELSE IF ScriptAddress(outs[i].pkScript).err THEN TxLoopOverwrite(outs, i + 1, m)
  ELSE TxLoopOverwrite(outs, i + 1,
              SetTo(m, ScriptAddress(outs[i].pkScript).addr, outs[i].value))

PrepareTxOutputsOverwrite(t) == TxLoopOverwrite(t, 1, <<>>)
PrepareTxOutputs(t) == TxLoop(t, 1, <<>>)

NoResult == [done |-> FALSE, out |-> <<>>]

\* ------------------------------------------------------------- helpers
\* btcutil.DecodeAddress: a string is parsed into an address value (here its
\* index), or the parse fails.
DecodeAddress(s) ==
  IF \E i \in DOMAIN AddrNames : AddrNames[i] = s
  THEN [err |-> FALSE, addr |-> CHOOSE i \in DOMAIN AddrNames : AddrNames[i] = s]
  ELSE [err |-> TRUE, addr |-> Nil]

DecodeAll(addrs) == {DecodeAddress(addrs[i]).addr : i \in DOMAIN addrs}
DecodeFails(addrs) == \E i \in DOMAIN addrs : DecodeAddress(addrs[i]).err

NoSession ==
  [state |-> "none", startBlock |-> 0, handlers |-> "", cs |-> Nil,
   addrs |-> {}, quitClosed |-> FALSE, by |-> "", origin |-> 0]
\* The caller's last StartWatching call: its arguments and what it did.
NoStart == [startBlock |-> 0, handlers |-> "", result |-> ""]
\* The caller's last AddAddresses call: its arguments, w.addresses when it was
\* made, what it met and what it returned ("" while it runs); session is the
\* Rescan whose Update it called.
NoAdd ==
  [args |-> <<>>, before |-> <<>>, result |-> "", restartingAtCall |-> FALSE,
   hadSession |-> FALSE, session |-> Nil]

Created == {s \in Listeners : sessions[s].state # "none"}
Built == {p \in Pairs : stores[p].state # "none"}
InRestart(l) == l \in Listeners /\ pc[l] \notin {"none", "listen", "got"}
\* restarts that have not yet reached their StartWatching / their start()
BeforeWatch == {l \in Listeners : InRestart(l) /\ pc[l] \notin {"r_snap", "r_apply", "r_unlock"}}
BeforeStart == {l \in BeforeWatch : pc[l] \notin {"r_sync", "r_watch"}}

Alive == crashed = ""

\* No WaitForSync call of the caller yet: pc is where the call is, seen the
\* height its last poll logged (-1 before the first), same whether the last
\* two polls logged the same height.
NoWait == [pc |-> "idle", seen |-> -1, same |-> FALSE]

\* The FullWatcher after NewFullWatcher (src/watch_test.go lines 170-182):
\* pc is where its goroutine is, height the loop's variable, best the
\* engine's best height, delivered the heights the handlers were called for,
\* last what the last getBlock did.
NoFull == [pc |-> "new", startBlock |-> 0, height |-> 0, best |-> 0,
           delivered |-> <<>>, closed |-> FALSE, last |-> ""]

WatcherInit ==
  /\ cs = 1 /\ db = 1 /\ rescan = Nil /\ quitChan = Nil
  /\ addresses = <<>> /\ fullClose = FALSE /\ mu = FALSE /\ restarting = FALSE
  /\ engines = [p \in Pairs |-> IF p = 1 THEN [state |-> "running", height |-> 0]
                                         ELSE [state |-> "none", height |-> 0]]
  /\ stores = [p \in Pairs |-> IF p = 1 THEN [state |-> "open", file |-> 1]
                                        ELSE [state |-> "none", file |-> Nil]]
  /\ sessions = [s \in Listeners |-> NoSession]
  /\ disk = [dbFile |-> 1, dataDir |-> TRUE]
  /\ pc = [p \in Procs |-> IF p = CloserId THEN "idle" ELSE "none"]
  /\ largs = [l \in Listeners |-> [startBlock |-> 0, handlers |-> "", origin |-> 0]]
  /\ lerr = [l \in Listeners |-> ""]
  /\ snap = [l \in Listeners |-> <<>>]
  /\ gaveUp = [l \in Listeners |-> ""]
  /\ made = [l \in Listeners |-> Nil]
  /\ callerPc = "idle" /\ lastAdd = NoAdd /\ lastStart = NoStart /\ closeResult = ""
  /\ crashed = "" /\ accepted = {} /\ nAdds = 0 /\ nStarts = 0
  /\ nFail = 0
  /\ wfs = NoWait /\ result = NoResult /\ fw = NoFull

Init == WatcherInit /\ tx = <<>>

\* ------------------------------------------------- the external objects
\* The ChainService downloads headers: its best height grows to the tip.
EngineSync(p) ==
  /\ Alive /\ engines[p].state = "running" /\ engines[p].height < TipHeight
  /\ engines' = [engines EXCEPT ![p].height = @ + 1]
  /\ UNCHANGED <<watcher, stores, sessions, disk, procs, hist>>
  /\ UNCHANGED nFail
  /\ UNCHANGED aux

\* cs.IsCurrent()
IsCurrent(p) == engines[p].height = TipHeight

\* The rescan goroutine ends once its quit channel is closed.
RescanExit(s) ==
  /\ Alive /\ sessions[s].state = "running" /\ sessions[s].quitClosed
  /\ sessions' = [sessions EXCEPT ![s].state = "stopped"]
  /\ UNCHANGED <<watcher, engines, stores, disk, procs, hist>>
  /\ UNCHANGED nFail
  /\ UNCHANGED aux

\* ------------------------------------------------------- StartWatching
NewSessionId == Cardinality(Created) + 1

\* What a StartWatching call does in the current state (lines 399-407).
\* A call that tests neither fullClose nor the handle:
StartWatchingResultUntested == "started"
StartWatchingResult ==
  IF fullClose THEN "noop"
  ELSE IF rescan # Nil THEN "panic"
  ELSE "started"

\* Lines 409-427: the new Rescan on w.cs and its error listener goroutine,
\* which keeps startBlock and handlers in its closure.
StartWatching(startBlock, handlers, by, origin) ==
  /\ NewSessionId <= MaxSessions
  /\ sessions' = [sessions EXCEPT ![NewSessionId] =
        [state |-> "running", startBlock |-> startBlock, handlers |-> handlers,
         cs |-> cs, addrs |-> {}, quitClosed |-> FALSE, by |-> by,
         origin |-> origin]]
  /\ rescan' = NewSessionId
  /\ quitChan' = NewSessionId
  /\ largs' = [largs EXCEPT ![NewSessionId] =
        [startBlock |-> startBlock, handlers |-> handlers, origin |-> origin]]

\* strings.Contains(err.Error(), "unable to fetch cfilter")
ErrKinds == {"unable to fetch cfilter", "other"}
IsDefectAll(e) == TRUE
IsDefect(e) == e = "unable to fetch cfilter"

\* The listener's  for err := range errChan  (line 420): an error of its
\* running Rescan arrives.
RescanError(l, e) ==
  /\ Alive /\ l \in Listeners /\ pc[l] = "listen"
  /\ sessions[l].state = "running"
  /\ IsDefect(e) =>
       /\ Cardinality(Created) + Cardinality(BeforeWatch) < MaxSessions
       /\ Cardinality(Built) + Cardinality(BeforeStart) < MaxPairs
  /\ pc' = [pc EXCEPT ![l] = "got"]
  /\ lerr' = [lerr EXCEPT ![l] = e]
  /\ UNCHANGED <<watcher, world, largs, snap, gaveUp, made, callerPc,
                 closeResult, hist>>
  /\ UNCHANGED nFail
  /\ UNCHANGED aux

\* Lines 421-425: the error is logged, and restart is called if it is the
\* defect.
HandleError(l) ==
  /\ Alive /\ l \in Listeners /\ pc[l] = "got"
  /\ pc' = [pc EXCEPT ![l] = IF IsDefect(lerr[l]) THEN "r_lock" ELSE "listen"]
  /\ UNCHANGED <<watcher, world, largs, lerr, snap, gaveUp, made, callerPc,
                 closeResult, hist>>
  /\ UNCHANGED nFail
  /\ UNCHANGED aux

\* A call into neutrino, walletdb or os fails only within the budget.
Outcome(ok) ==
  /\ ok \/ nFail < MaxFailures
  /\ nFail' = IF ok THEN nFail ELSE nFail + 1

\* ---------------------------------------------------------------- stop
\* stop() is run by Close and by restart; p is the closer or a listener.
AfterStop(p, ok) ==
  IF p = CloserId THEN "closed" ELSE IF ok THEN "r_rmdir" ELSE "r_unlock"

StopFailed(p) ==
  IF p = CloserId
  THEN closeResult' = "err" /\ UNCHANGED gaveUp
  ELSE gaveUp' = [gaveUp EXCEPT ![p] = "stop"] /\ UNCHANGED closeResult

\* Lines 362-363: if w.quitChan != nil { close(w.quitChan)
StopQuit(p) ==
  /\ Alive /\ pc[p] = "stop_quit"
  /\ IF quitChan = Nil
     THEN pc' = [pc EXCEPT ![p] = "stop_cs"] /\ UNCHANGED <<sessions, crashed>>
     ELSE IF sessions[quitChan].quitClosed
     THEN crashed' = "close of closed channel" /\ UNCHANGED <<pc, sessions>>
     ELSE /\ sessions' = [sessions EXCEPT ![quitChan].quitClosed = TRUE]
          /\ pc' = [pc EXCEPT ![p] = "stop_wait"]
          /\ UNCHANGED crashed
  /\ UNCHANGED <<watcher, engines, stores, disk, largs, lerr, snap, gaveUp, made,
                 callerPc, closeResult, lastAdd, lastStart, accepted, nAdds,
                 nStarts>>
  /\ UNCHANGED nFail
  /\ UNCHANGED aux

\* Lines 364-366: w.rescan.WaitForShutdown(); w.quitChan = nil; w.rescan = nil
StopWait(p) ==
  /\ Alive /\ pc[p] = "stop_wait"
  /\ IF rescan = Nil
     THEN crashed' = "nil rescan" /\ UNCHANGED <<pc, rescan, quitChan>>
     ELSE /\ sessions[rescan].state = "stopped"
          /\ quitChan' = Nil /\ rescan' = Nil
          /\ pc' = [pc EXCEPT ![p] = "stop_cs"]
          /\ UNCHANGED crashed
  /\ UNCHANGED <<cs, db, addresses, fullClose, mu, restarting, world, largs,
                 lerr, snap, gaveUp, made, callerPc, closeResult, lastAdd, lastStart,
                 accepted, nAdds, nStarts>>
  /\ UNCHANGED nFail
  /\ UNCHANGED aux

\* Lines 368-370: w.cs.Stop()
StopCs(p, ok) ==
  /\ Alive /\ pc[p] = "stop_cs"
  /\ IF ok
     THEN /\ engines' = [engines EXCEPT ![cs].state = "stopped"]
          /\ pc' = [pc EXCEPT ![p] = "stop_db"]
          /\ UNCHANGED <<gaveUp, closeResult>>
     ELSE /\ pc' = [pc EXCEPT ![p] = AfterStop(p, FALSE)]
          /\ StopFailed(p)
          /\ UNCHANGED engines
  /\ UNCHANGED <<watcher, stores, sessions, disk, largs, lerr, snap, made, callerPc,
                 hist>>
  /\ Outcome(ok)
  /\ UNCHANGED aux

\* Lines 371-374: w.db.Close()
StopDb(p, ok) ==
  /\ Alive /\ pc[p] = "stop_db"
  /\ pc' = [pc EXCEPT ![p] = AfterStop(p, ok)]
  /\ IF ok
     THEN /\ stores' = [stores EXCEPT ![db].state = "closed"]
          /\ closeResult' = IF p = CloserId THEN "ok" ELSE closeResult
          /\ UNCHANGED gaveUp
     ELSE StopFailed(p) /\ UNCHANGED stores
  /\ UNCHANGED <<watcher, engines, sessions, disk, largs, lerr, snap, made, callerPc,
                 hist>>
  /\ Outcome(ok)
  /\ UNCHANGED aux

\* Close (lines 356-359): close(w.fullClose), then stop().
Close ==
  /\ Alive /\ pc[CloserId] = "idle"
  /\ fullClose' = TRUE
  /\ pc' = [pc EXCEPT ![CloserId] = "stop_quit"]
  /\ UNCHANGED <<cs, db, rescan, quitChan, addresses, mu, restarting, world,
                 largs, lerr, snap, gaveUp, made, callerPc, closeResult, hist>>
  /\ UNCHANGED nFail
  /\ UNCHANGED aux

\* ------------------------------------------------------------- restart
GiveUp(l, step) ==
  /\ gaveUp' = [gaveUp EXCEPT ![l] = step]
  /\ pc' = [pc EXCEPT ![l] = "r_unlock"]

\* Lines 431-433: w.restarting = true under the mutex.
RestartLock(l) ==
  /\ Alive /\ l \in Listeners /\ pc[l] = "r_lock" /\ ~mu
  /\ restarting' = TRUE
  /\ pc' = [pc EXCEPT ![l] = "stop_quit"]
  /\ gaveUp' = [gaveUp EXCEPT ![l] = ""]
  /\ made' = [made EXCEPT ![l] = Nil]
  /\ snap' = [snap EXCEPT ![l] = <<>>]
  /\ UNCHANGED <<cs, db, rescan, quitChan, addresses, fullClose, mu, world,
                 largs, lerr, callerPc, closeResult, hist>>
  /\ UNCHANGED nFail
  /\ UNCHANGED aux

\* Lines 445-449: os.RemoveAll(dataDir)
RestartRemoveDir(l, ok) ==
  /\ Alive /\ l \in Listeners /\ pc[l] = "r_rmdir"
  /\ IF ok
     THEN /\ disk' = [disk EXCEPT !.dataDir = FALSE]
          /\ pc' = [pc EXCEPT ![l] = "r_rmdb"]
          /\ UNCHANGED gaveUp
     ELSE GiveUp(l, "rmdir") /\ UNCHANGED disk
  /\ UNCHANGED <<watcher, engines, stores, sessions, largs, lerr, snap, made,
                 callerPc, closeResult, hist>>
  /\ Outcome(ok)
  /\ UNCHANGED aux

\* Lines 450-454: os.Remove(dbFile), which fails on a missing file.
RestartRemoveDb(l, ok) ==
  /\ Alive /\ l \in Listeners /\ pc[l] = "r_rmdb"
  /\ IF ok /\ disk.dbFile # Nil
     THEN /\ disk' = [disk EXCEPT !.dbFile = Nil]
          /\ pc' = [pc EXCEPT ![l] = "r_start"]
          /\ UNCHANGED gaveUp
     ELSE GiveUp(l, "rmdb") /\ UNCHANGED disk
  /\ UNCHANGED <<watcher, engines, stores, sessions, largs, lerr, snap, made,
                 callerPc, closeResult, hist>>
  /\ Outcome(ok)
  /\ UNCHANGED aux

\* start() (lines 295-354). how is the step that fails, or "ok":
\*   "db"     walletdb.Create / walletdb.Open fails          (line 305)
\*   "mkdir"  os.Mkdir fails, the store stays open           (line 310)
\*   "newcs"  neutrino.NewChainService fails                 (line 342)
\*   "start"  cs.Start fails, the engine is not running      (line 345)
\* walletdb.Open of a file another open store holds waits for its lock.
StartHows == {"db", "mkdir", "newcs", "start", "ok"}
NewPairId == Cardinality(Built) + 1
start(how) ==
  IF how = "db"
  THEN UNCHANGED <<cs, db, engines, stores, disk>>
  ELSE /\ NewPairId <= MaxPairs
       /\ disk.dbFile # Nil =>
            ~\E q \in Pairs : stores[q].state = "open" /\ stores[q].file = disk.dbFile
       /\ stores' = [stores EXCEPT ![NewPairId] =
             [state |-> "open",
              file |-> IF disk.dbFile = Nil THEN NewPairId ELSE disk.dbFile]]
       /\ disk' = [dbFile |-> IF disk.dbFile = Nil THEN NewPairId ELSE disk.dbFile,
                   dataDir |-> IF how = "mkdir" THEN disk.dataDir ELSE TRUE]
       /\ engines' = [engines EXCEPT ![NewPairId].state =
             IF how = "ok" THEN "running" ELSE IF how = "start" THEN "failed" ELSE @]
       /\ cs' = IF how = "ok" THEN NewPairId ELSE cs
       /\ db' = IF how = "ok" THEN NewPairId ELSE db

\* Lines 456-459: w.start()
RestartStart(l, how) ==
  /\ Alive /\ l \in Listeners /\ pc[l] = "r_start"
  /\ start(how)
  /\ IF how = "ok"
     THEN pc' = [pc EXCEPT ![l] = "r_sync"] /\ UNCHANGED gaveUp
     ELSE GiveUp(l, "start")
  /\ UNCHANGED <<rescan, quitChan, addresses, fullClose, mu, restarting,
                 sessions, largs, lerr, snap, made, callerPc, closeResult, hist>>
  /\ Outcome(how = "ok")
  /\ UNCHANGED aux

\* w.cs.BestBlock() (line 381) reads the chain tip from the header store in
\* w.db: it returns an error when the read fails (bestBlockOk is false) and
\* whenever that walletdb is closed.
BestBlockErr(bestBlockOk) == ~bestBlockOk \/ stores[db].state # "open"

\* One iteration of WaitForSync (lines 377-388): "done" when cs.IsCurrent(),
\* otherwise a poll of cs.BestBlock(), which may fail.
WaitForSyncStep(bestBlockOk) ==
  IF IsCurrent(cs) THEN "done" ELSE IF BestBlockErr(bestBlockOk) THEN "err" ELSE "poll"

\* Lines 460-463: w.WaitForSync()
RestartSync(l, bestBlockOk) ==
  /\ Alive /\ l \in Listeners /\ pc[l] = "r_sync"
  /\ WaitForSyncStep(bestBlockOk) # "poll"
  /\ IF WaitForSyncStep(bestBlockOk) = "done"
     THEN pc' = [pc EXCEPT ![l] = "r_watch"] /\ UNCHANGED gaveUp
     ELSE GiveUp(l, "sync")
  /\ UNCHANGED <<watcher, world, largs, lerr, snap, made, callerPc, closeResult, hist>>
  /\ Outcome(bestBlockOk)
  /\ UNCHANGED aux

\* The arguments restart passes on (line 465): those of its own call.
RestartArgsCurrentHeight(l) == [largs[l] EXCEPT !.startBlock = engines[cs].height]
RestartArgs(l) == largs[l]

\* Line 465: w.StartWatching(startBlock, handlers)
RestartWatch(l) ==
  /\ Alive /\ l \in Listeners /\ pc[l] = "r_watch"
  /\ IF StartWatchingResult = "noop"
     THEN /\ pc' = [pc EXCEPT ![l] = "r_snap"]
          /\ UNCHANGED <<rescan, quitChan, sessions, largs, made, crashed>>
     ELSE IF StartWatchingResult = "panic"
     THEN /\ crashed' = "StartWatching called several times"
          /\ UNCHANGED <<rescan, quitChan, sessions, largs, made, pc>>
     ELSE /\ StartWatching(RestartArgs(l).startBlock, RestartArgs(l).handlers,
                           "restart", RestartArgs(l).origin)
          /\ pc' = [pc EXCEPT ![l] = "r_snap", ![NewSessionId] = "listen"]
          /\ made' = [made EXCEPT ![l] = NewSessionId]
          /\ UNCHANGED crashed
  /\ UNCHANGED <<cs, db, addresses, fullClose, mu, restarting, engines, stores,
                 disk, lerr, snap, gaveUp, callerPc, closeResult, lastAdd, lastStart,
                 accepted, nAdds, nStarts>>
  /\ UNCHANGED nFail
  /\ UNCHANGED aux

\* Line 468: the slice restart takes, w.addresses as it is at that moment.
RestartAddrs(l) == addresses

\* Lines 467-469: addrs := w.addresses under the mutex.
RestartSnapshot(l) ==
  /\ Alive /\ l \in Listeners /\ pc[l] = "r_snap" /\ ~mu
  /\ snap' = [snap EXCEPT ![l] = RestartAddrs(l)]
  /\ pc' = [pc EXCEPT ![l] = "r_apply"]
  /\ UNCHANGED <<watcher, world, largs, lerr, gaveUp, made, callerPc, closeResult, hist>>
  /\ UNCHANGED nFail
  /\ UNCHANGED aux

\* addAddresses (lines 490-503): decode every address, then w.rescan.Update.
\* The result is "decode" (an address does not decode), "panic" (w.rescan is
\* nil), "update" (Update returns an error) or "ok".
addAddressesResult(addrs, updateOk) ==
  IF DecodeFails(addrs) THEN "decode"
  ELSE IF rescan = Nil THEN "panic"
  ELSE IF sessions[rescan].state = "running" /\ updateOk THEN "ok"
  ELSE "update"

addAddresses(addrs, updateOk) ==
  /\ sessions' = IF addAddressesResult(addrs, updateOk) = "ok"
                 THEN [sessions EXCEPT ![rescan].addrs = @ \cup DecodeAll(addrs)]
                 ELSE sessions
  /\ crashed' = IF addAddressesResult(addrs, updateOk) = "panic"
                THEN "nil rescan" ELSE crashed

\* Lines 470-473: w.addAddresses(addrs...)
RestartApply(l, updateOk) ==
  /\ Alive /\ l \in Listeners /\ pc[l] = "r_apply"
  /\ addAddresses(snap[l], updateOk)
  /\ IF addAddressesResult(snap[l], updateOk) = "ok"
     THEN pc' = [pc EXCEPT ![l] = "r_unlock"] /\ UNCHANGED gaveUp
     ELSE IF addAddressesResult(snap[l], updateOk) = "panic"
     THEN UNCHANGED <<pc, gaveUp>>
     ELSE GiveUp(l, "apply")
  /\ snap' = [snap EXCEPT ![l] = <<>>]
  /\ UNCHANGED <<watcher, engines, stores, disk, largs, lerr, made, callerPc,
                 closeResult, lastAdd, lastStart, accepted, nAdds, nStarts>>
  /\ Outcome(updateOk)
  /\ UNCHANGED aux

\* The deferred function of restart (lines 435-439): w.restarting = false.
RestartUnlock(l) ==
  /\ Alive /\ l \in Listeners /\ pc[l] = "r_unlock" /\ ~mu
  /\ restarting' = FALSE
  /\ pc' = [pc EXCEPT ![l] = "listen"]
  /\ made' = [made EXCEPT ![l] = Nil]
  /\ UNCHANGED <<cs, db, rescan, quitChan, addresses, fullClose, mu, world,
                 largs, lerr, snap, gaveUp, callerPc, closeResult, hist>>
  /\ UNCHANGED nFail
  /\ UNCHANGED aux

\* ---------------------------------------------------------- the caller
Range(f) == {f[i] : i \in DOMAIN f}

\* A StartWatching call of the caller (lines 398-428).
StartWatchingCall(startBlock, handlers) ==
  /\ Alive /\ callerPc = "idle" /\ nStarts < MaxStarts
  /\ nStarts' = nStarts + 1
  /\ lastStart' = [startBlock |-> startBlock, handlers |-> handlers,
                   result |-> StartWatchingResult]
  /\ IF StartWatchingResult = "noop"
     THEN UNCHANGED <<rescan, quitChan, sessions, largs, pc, crashed>>
     ELSE IF StartWatchingResult = "panic"
     THEN /\ crashed' = "StartWatching called several times"
          /\ UNCHANGED <<rescan, quitChan, sessions, largs, pc>>
     ELSE /\ StartWatching(startBlock, handlers, "caller", nStarts + 1)
          /\ pc' = [pc EXCEPT ![NewSessionId] = "listen"]
          /\ UNCHANGED crashed
  /\ UNCHANGED <<cs, db, addresses, fullClose, mu, restarting, engines, stores,
                 disk, lerr, snap, gaveUp, made, callerPc, closeResult, lastAdd,
                 accepted, nAdds>>
  /\ UNCHANGED nFail
  /\ UNCHANGED aux

\* The caller's one StartWatching call, and a further call, which the
\* contract of StartWatching forbids.
CallStartWatching(startBlock, handlers) ==
  nStarts = 0 /\ StartWatchingCall(startBlock, handlers)

CallStartWatchingAgain(startBlock, handlers) ==
  nStarts > 0 /\ StartWatchingCall(startBlock, handlers)

\* Line 479: w.addresses = append(w.addresses, addrs...)
AppendNothing(old, addrs) == old
\* A list that holds only the addresses of the last call.
ReplaceAddrs(old, addrs) == addrs
AppendAddrs(old, addrs) == old \o addrs

\* AddAddresses up to its test of w.restarting (lines 477-483): the append
\* and, while restarting, the return of nil.
\* guard is what the test of line 480 finds.
AddAddressesUpTo(addrs, guard) ==
  /\ Alive /\ callerPc = "idle" /\ ~mu
  /\ nAdds' = nAdds + 1
  /\ addresses' = AppendAddrs(addresses, addrs)
  /\ lastAdd' = [args |-> addrs, before |-> addresses,
                 result |-> IF guard THEN "ok" ELSE "",
                 restartingAtCall |-> restarting, hadSession |-> rescan # Nil,
                 session |-> Nil]
  /\ mu' = ~guard
  /\ callerPc' = IF guard THEN "idle" ELSE "aa_update"
  /\ accepted' = IF guard THEN accepted \cup Range(addrs) ELSE accepted
  /\ UNCHANGED <<cs, db, rescan, quitChan, fullClose, restarting, world, pc,
                 largs, lerr, snap, gaveUp, made, closeResult, lastStart, crashed,
                 nStarts, nFail>>
  /\ UNCHANGED aux

AddAddressesLockNoGuard(addrs) == nAdds < MaxAdds /\ AddAddressesUpTo(addrs, FALSE)
AddAddressesLock(addrs) == nAdds < MaxAdds /\ AddAddressesUpTo(addrs, restarting)
\* The same call of a caller that makes more calls.
AddAddressesLockAgain(addrs) == nAdds < MaxAddsGrow /\ AddAddressesUpTo(addrs, restarting)

\* The rest of AddAddresses (lines 484-487), still holding the mutex.
AddAddressesUpdate(updateOk) ==
  /\ Alive /\ callerPc = "aa_update"
  /\ addAddresses(lastAdd.args, updateOk)
  /\ lastAdd' = [lastAdd EXCEPT !.result = addAddressesResult(lastAdd.args, updateOk),
                                !.hadSession = rescan # Nil,
                                !.session = rescan]
  /\ accepted' = IF addAddressesResult(lastAdd.args, updateOk) = "ok"
                 THEN accepted \cup Range(lastAdd.args) ELSE accepted
  /\ mu' = FALSE
  /\ callerPc' = "idle"
  /\ UNCHANGED <<cs, db, rescan, quitChan, addresses, fullClose, restarting,
                 engines, stores, disk, pc, largs, lerr, snap, gaveUp, made,
                 closeResult, lastStart, nAdds, nStarts>>
  /\ Outcome(updateOk)
  /\ UNCHANGED aux

\* CurrentHeight (lines 390-396): w.cs.BestBlock(), a query of the engine
\* that changes nothing.
CurrentHeight(bestBlockOk) ==
  /\ Alive /\ callerPc = "idle" /\ cs # Nil
  /\ bestBlockOk \in BOOLEAN
  /\ UNCHANGED vars

\* WaitForSync of the caller (lines 377-388), one loop iteration per step:
\* it reads the engine and changes nothing of the Watcher.
CallWaitForSync(bestBlockOk) ==
  /\ Alive /\ callerPc = "idle"
  /\ WaitForSyncStep(bestBlockOk) \in {"done", "poll", "err"}
  /\ UNCHANGED vars

\* WaitForSync of the caller with its position kept, for the claims about
\* the call itself. The call (line 377):
WaitForSyncCall ==
  /\ Alive /\ callerPc = "idle" /\ wfs.pc \in {"idle", "ok", "err"}
  /\ wfs' = [pc |-> "check", seen |-> -1, same |-> FALSE]
  /\ UNCHANGED <<watcher, world, procs, hist, nFail, tx, result, fw>>

\* Line 378: for !w.cs.IsCurrent(); line 387: return nil.
WaitForSyncCheckAlways == "ok"
WaitForSyncCheck == IF IsCurrent(cs) THEN "ok" ELSE "sleep"

WaitForSyncLoop ==
  /\ Alive /\ wfs.pc = "check"
  /\ wfs' = [wfs EXCEPT !.pc = WaitForSyncCheck]
  /\ UNCHANGED <<watcher, world, procs, hist, nFail, tx, result, fw>>

\* Lines 379-385: after the sleep, BestBlock; its error is returned, its
\* height is logged.
WaitForSyncPoll(bestBlockOk) ==
  /\ Alive /\ wfs.pc = "sleep"
  /\ wfs' = IF BestBlockErr(bestBlockOk)
            THEN [wfs EXCEPT !.pc = "err"]
            ELSE [pc |-> "check", seen |-> engines[cs].height,
                  same |-> wfs.seen = engines[cs].height]
  /\ UNCHANGED <<watcher, world, procs, hist, tx, result, fw>>
  /\ Outcome(bestBlockOk)

\* A call of PrepareTxOutputs on the transaction tx.
CallPrepareTxOutputs ==
  /\ ~result.done
  /\ result' = [done |-> TRUE, out |-> PrepareTxOutputs(tx)]
  /\ UNCHANGED <<watcher, world, procs, hist, nFail, wfs, tx, fw>>

\* ------------------------------------------------------ specification
\* The steps of the goroutines the Watcher starts, of the engine and of Close.
Internal(oks, hows, ps) ==
  \/ \E p \in Pairs : EngineSync(p)
  \/ \E s \in Listeners : RescanExit(s)
  \/ \E l \in Listeners, e \in ErrKinds : RescanError(l, e)
  \/ \E l \in Listeners : HandleError(l)
  \/ \E p \in ps : StopQuit(p)
  \/ \E p \in ps : StopWait(p)
  \/ \E p \in ps, ok \in oks : StopCs(p, ok)
  \/ \E p \in ps, ok \in oks : StopDb(p, ok)
  \/ \E l \in Listeners : RestartLock(l)
  \/ \E l \in Listeners, ok \in oks : RestartRemoveDir(l, ok)
  \/ \E l \in Listeners, ok \in oks : RestartRemoveDb(l, ok)
  \/ \E l \in Listeners, how \in hows : RestartStart(l, how)
  \/ \E l \in Listeners, ok \in oks : RestartSync(l, ok)
  \/ \E l \in Listeners : RestartWatch(l)
  \/ \E l \in Listeners : RestartSnapshot(l)
  \/ \E l \in Listeners, ok \in oks : RestartApply(l, ok)
  \/ \E l \in Listeners : RestartUnlock(l)

\* A caller that keeps to the contract: StartWatching at most once.
Next ==
  \/ Internal(BOOLEAN, StartHows, Procs)
  \/ Close
  \/ \E a \in StartArgs : CallStartWatching(a.startBlock, a.handlers)
  \/ \E addrs \in Batches : AddAddressesLock(addrs)
  \/ \E ok \in BOOLEAN : AddAddressesUpdate(ok)
  \/ \E ok \in BOOLEAN : CurrentHeight(ok)
  \/ \E ok \in BOOLEAN : CallWaitForSync(ok)

Spec == Init /\ [][Next]_vars

\* The steps of listener goroutine l, which the Go scheduler keeps running.
ListenerStep(l) ==
  \/ HandleError(l)
  \/ StopQuit(l)
  \/ StopWait(l)
  \/ \E ok \in BOOLEAN : StopCs(l, ok)
  \/ \E ok \in BOOLEAN : StopDb(l, ok)
  \/ RestartLock(l)
  \/ \E ok \in BOOLEAN : RestartRemoveDir(l, ok)
  \/ \E ok \in BOOLEAN : RestartRemoveDb(l, ok)
  \/ \E how \in StartHows : RestartStart(l, how)
  \/ \E ok \in BOOLEAN : RestartSync(l, ok)
  \/ RestartWatch(l)
  \/ RestartSnapshot(l)
  \/ \E ok \in BOOLEAN : RestartApply(l, ok)
  \/ RestartUnlock(l)

\* Every goroutine that can take a step takes one, a running engine reaches
\* the tip, and an AddAddresses call in progress returns.
\* Close closes fullClose first and nothing reopens it, so a behaviour
\* with a Close step is, from that step on, a closed Watcher; the behaviours
\* in which the Watcher stays open are those of RecoveryNext.
RecoveryNext ==
  \/ Internal(BOOLEAN, StartHows, Listeners)
  \/ \E a \in StartArgs : CallStartWatching(a.startBlock, a.handlers)
  \/ \E addrs \in Batches : AddAddressesLock(addrs)
  \/ \E ok \in BOOLEAN : AddAddressesUpdate(ok)

FairSpec ==
  /\ Init /\ [][RecoveryNext]_vars
  /\ \A l \in Listeners : WF_vars(ListenerStep(l))
  /\ \A p \in Pairs : WF_vars(EngineSync(p))
  /\ \A s \in Listeners : WF_vars(RescanExit(s))
  /\ WF_vars(\E ok \in BOOLEAN : AddAddressesUpdate(ok))

\* A caller that calls StartWatching again, with every call into neutrino,
\* walletdb and os succeeding.
MisuseNext ==
  \/ Internal({TRUE}, {"ok"}, Procs)
  \/ Close
  \/ \E a \in StartArgs : CallStartWatching(a.startBlock, a.handlers)
  \/ \E a \in StartArgs : CallStartWatchingAgain(a.startBlock, a.handlers)

MisuseSpec == Init /\ [][MisuseNext]_vars

\* The caller as cmd/main runs it: WaitForSync calls, then StartWatching and
\* AddAddresses, while the signal goroutine may call Close.
SyncNext ==
  \/ Internal(BOOLEAN, StartHows, Procs)
  \/ Close
  \/ WaitForSyncCall
  \/ WaitForSyncLoop
  \/ \E ok \in BOOLEAN : WaitForSyncPoll(ok)
  \/ \E a \in StartArgs : wfs.pc = "ok" /\ CallStartWatching(a.startBlock, a.handlers)

SyncSpec == Init /\ [][SyncNext]_vars

\* The same program with its goroutines scheduled: the WaitForSync loop, the
\* goroutine that runs Close, the listeners and the rescan goroutines keep
\* running. The engine is not required to make progress.
CloserStep ==
  \/ StopQuit(CloserId)
  \/ StopWait(CloserId)
  \/ \E ok \in BOOLEAN : StopCs(CloserId, ok)
  \/ \E ok \in BOOLEAN : StopDb(CloserId, ok)

FairSyncSpec ==
  /\ Init /\ [][SyncNext]_vars
  /\ WF_vars(WaitForSyncLoop)
  /\ WF_vars(\E ok \in BOOLEAN : WaitForSyncPoll(ok))
  /\ WF_vars(CloserStep)
  /\ \A l \in Listeners : WF_vars(ListenerStep(l))
  /\ \A s \in Listeners : WF_vars(RescanExit(s))

\* A caller that calls AddAddresses more than once, with every call into
\* neutrino, walletdb and os succeeding.
GrowNext ==
  \/ Internal({TRUE}, {"ok"}, Procs)
  \/ Close
  \/ \E a \in StartArgs : CallStartWatching(a.startBlock, a.handlers)
  \/ \E addrs \in Batches : AddAddressesLockAgain(addrs)
  \/ AddAddressesUpdate(TRUE)

GrowSpec == Init /\ [][GrowNext]_vars

\* ---------------------------------------------------------- FullWatcher
FullUnchanged == UNCHANGED <<watcher, world, procs, hist, nFail, wfs, tx, result>>

\* The engine learns of the next block.
FullEngineSync ==
  /\ ~fw.closed /\ fw.best < MaxBest
  /\ fw' = [fw EXCEPT !.best = @ + 1]
  /\ FullUnchanged

\* FullWatcher.StartWatching (lines 216-245): after WaitForSync, height :=
\* startBlock and the goroutine is started.
FullStartWatching(startBlock) ==
  /\ fw.pc = "new" /\ ~fw.closed
  /\ fw' = [fw EXCEPT !.pc = "loop", !.startBlock = startBlock, !.height = startBlock]
  /\ FullUnchanged

\* getBlock (lines 247-284): "err" when CurrentHeight or a fetch fails,
\* "wait" when height is above the best height (sleep, return nil), "block"
\* when the handlers were called.
getBlock(height, currentHeightOk, fetchOk) ==
  IF ~currentHeightOk THEN "err"
  ELSE IF height > fw.best THEN "wait"
  ELSE IF ~fetchOk THEN "err"
  ELSE "block"

\* The loop's step after getBlock (lines 228-241): an error is logged and the
\* same height is tried again; with no error, height++.
NextHeight(height, got) == IF got = "err" THEN height ELSE height + 1

\* One iteration of the goroutine's loop (lines 221-242).
FullLoop(currentHeightOk, fetchOk) ==
  /\ fw.pc = "loop"
  /\ IF fw.closed
     THEN fw' = [fw EXCEPT !.pc = "returned"]
     ELSE /\ fw.height < MaxFullHeight
          /\ fw' = [fw EXCEPT
                !.last = getBlock(fw.height, currentHeightOk, fetchOk),
                !.delivered = IF getBlock(fw.height, currentHeightOk, fetchOk) = "block"
                              THEN Append(@, fw.height) ELSE @,
                !.height = NextHeight(@, getBlock(fw.height, currentHeightOk, fetchOk))]
  /\ FullUnchanged

\* FullWatcher.Close (lines 184-193).
FullClose ==
  /\ ~fw.closed
  /\ fw' = [fw EXCEPT !.closed = TRUE]
  /\ FullUnchanged

FullNext ==
  \/ FullEngineSync
  \/ \E b \in 0..MaxFullStart : FullStartWatching(b)
  \/ \E c, f \in BOOLEAN : FullLoop(c, f)
  \/ FullClose

FullSpec == Init /\ [][FullNext]_vars

\* PrepareTxOutputs applied to every transaction within the bounds.
TxInit == WatcherInit /\ tx \in Txs
TxNext == CallPrepareTxOutputs
TxSpec == TxInit /\ [][TxNext]_vars
\* ---------------------------------------------------------------- claims
Applied(s) == IF s = Nil THEN {} ELSE sessions[s].addrs
NoRestartYet == \A l \in Listeners : pc[l] \in {"none", "listen", "got"} /\ gaveUp[l] = ""

\* C1: when a restart whose steps all succeeded clears restarting, every
\* address AddAddresses has accepted so far (those added while the restart
\* ran included) has been passed to Update of the restart's new Rescan.
\* Stated for the accepted addresses that decode.
C1_AppliedAtUnlock ==
  [][\A l \in Listeners :
       (pc[l] = "r_unlock" /\ pc'[l] = "listen" /\ gaveUp[l] = "" /\ made[l] # Nil)
       => \A a \in accepted :
            ~DecodeAddress(a).err => DecodeAddress(a).addr \in Applied(made[l])]_vars

\* C2: with no restart, an AddAddresses call that finds no Rescan returns
\* success, and the live Rescan has every accepted address.
C2_EitherOrder ==
  /\ (lastAdd.result # "" /\ ~lastAdd.hadSession /\ ~lastAdd.restartingAtCall
        /\ ~DecodeFails(lastAdd.args))
       => lastAdd.result = "ok"
  /\ (NoRestartYet /\ rescan # Nil /\ callerPc = "idle")
       => \A a \in accepted : DecodeAddress(a).addr \in Applied(rescan)

\* C3: an AddAddresses call with an address that does not decode returns an
\* error and changes neither w.addresses nor the address set of a Rescan.
C3_AllOrNothing ==
  (lastAdd.result # "" /\ DecodeFails(lastAdd.args))
    => /\ lastAdd.result = "decode"
       /\ addresses = lastAdd.before
       /\ \A s \in Listeners : sessions[s].addrs \subseteq DecodeAll(lastAdd.before)
\* C4: a StartWatching call of the caller after the first one panics, in
\* every state: it is never a silent no-op and never starts a Rescan.
C4_SecondCallPanics == nStarts >= 2 => lastStart.result = "panic"

\* C6: every Rescan that restart starts has the startBlock and the handlers
\* of the caller's StartWatching call.
RestartSessions == {s \in Listeners : sessions[s].by = "restart"}
C6_OriginalArgs ==
  \A s \in RestartSessions :
    /\ sessions[s].startBlock = lastStart.startBlock
    /\ sessions[s].handlers = lastStart.handlers
\* Two successive restarts have each started a Rescan, from a start block
\* below the height the engine had reached.
C6_Witness ==
  /\ Cardinality(RestartSessions) >= 2
  /\ \A s \in RestartSessions : sessions[s].startBlock < engines[sessions[s].cs].height

\* C7: an AddAddresses call made while restarting is true returns nil and
\* only appends to w.addresses: no Rescan, handle or flag changes.
C7_AddWhileRestarting ==
  [][(nAdds' = nAdds + 1 /\ restarting)
       => /\ lastAdd'.result = "ok" /\ callerPc' = "idle" /\ mu' = mu
          /\ addresses' = addresses \o lastAdd'.args
          /\ UNCHANGED <<cs, db, rescan, quitChan, fullClose, restarting,
                         world, pc, crashed>>]_vars
C7_Witness ==
  /\ lastAdd.restartingAtCall /\ lastAdd.result = "ok" /\ lastAdd.hadSession
  /\ addresses = lastAdd.before \o lastAdd.args /\ addresses # <<>>

\* C8: a Rescan error without the defect signature starts no restart and
\* leaves w.cs, w.db, w.rescan, w.quitChan, w.addresses and w.restarting as
\* they are.
C8_OtherErrorIgnored ==
  [][\A l \in Listeners :
       (pc[l] = "got" /\ lerr[l] = "other" /\ pc'[l] # "got")
       => /\ pc'[l] = "listen"
          /\ UNCHANGED <<cs, db, rescan, quitChan, addresses, restarting>>]_vars
C8_Witness ==
  \E l \in Listeners :
    /\ pc[l] = "listen" /\ lerr[l] = "other" /\ sessions[l].state = "running"
    /\ rescan = l /\ ~restarting

\* C9: a restart that gave up has started no Rescan, and no later
\* AddAddresses call crashes on the missing Rescan.
C9_DegradedNoCrash ==
  /\ \A l \in Listeners : (pc[l] = "r_unlock" /\ gaveUp[l] # "") => made[l] = Nil
  /\ (\E l \in Listeners : pc[l] = "listen" /\ gaveUp[l] # "")
       => lastAdd.result # "panic"

\* C10: at most one ChainService + walletdb pair is live.
LivePairs == {p \in Pairs : engines[p].state = "running" \/ stores[p].state = "open"}
C10_OnePairLive == Cardinality(LivePairs) <= 1
\* C5: a defect error that listener l receives while its Rescan is the live
\* one (the Watcher is Watching) leads to Watching again on a fresh Rescan,
\* one that restart started after l's, to which every address registered
\* before the error has been applied, unless a step of a restart failed (gave
\* up or panicked) or the Watcher was closed.
DefectWhileWatching(l) ==
  /\ rescan = l /\ pc[l] = "got" /\ lerr[l] = "unable to fetch cfilter"
  /\ ~fullClose /\ Alive
WatchingAgain(l) ==
  /\ rescan # Nil /\ rescan # l /\ sessions[rescan].by = "restart"
  /\ sessions[rescan].state = "running"
\* A restart gave up at a step, or a step of a restart panicked.
RestartStepFailed ==
  \/ \E l \in Listeners : gaveUp[l] # ""
  \/ crashed # "" /\ lastAdd.result # "panic"
Excused == RestartStepFailed \/ fullClose
C5_Recovery ==
  \A l \in Listeners :
    /\ DefectWhileWatching(l) ~> (WatchingAgain(l) \/ Excused)
    /\ \A a \in AddrStrings :
         (DefectWhileWatching(l) /\ a \in Range(addresses))
           ~> \/ WatchingAgain(l) /\ DecodeAddress(a).addr \in Applied(rescan)
              \/ Excused
\* The same with every panic excused: that of the caller's AddAddresses too.
RecoveryUnlessPanic ==
  \A l \in Listeners :
    /\ DefectWhileWatching(l) ~> (WatchingAgain(l) \/ Excused \/ ~Alive)
    /\ \A a \in AddrStrings :
         (DefectWhileWatching(l) /\ a \in Range(addresses))
           ~> \/ WatchingAgain(l) /\ DecodeAddress(a).addr \in Applied(rescan)
              \/ Excused \/ ~Alive
\* C11: once Close has been called (fullClose is closed), no step creates a
\* Rescan or constructs a ChainService + walletdb pair.
C11_ClosedTerminal ==
  [][fullClose => (Created' \subseteq Created /\ Built' \subseteq Built)]_vars
\* C12: a start() that returns an error leaves no walletdb open and no
\* ChainService running that was not so before the call.
C12_FailedStartLeavesNothing ==
  [][\A l \in Listeners :
       (pc[l] = "r_start" /\ gaveUp'[l] = "start") => LivePairs' \subseteq LivePairs]_vars
\* C13: when two consecutive polls of WaitForSync have observed the same best
\* height, WaitForSync has invoked restart (which sets restarting first)
\* before it goes round its loop again.
C13_StagnationRestarts == (wfs.pc = "check" /\ wfs.same) => restarting
\* C14: WaitForSync returns nil only from its loop test and only when the
\* engine is current, and its poll returns an error exactly when BestBlock
\* failed: the first error ends the call, a good poll goes back to the test.
C14_WaitForSyncResult ==
  [][/\ (wfs.pc # "ok" /\ wfs'.pc = "ok") => (wfs.pc = "check" /\ IsCurrent(cs))
     /\ (wfs.pc = "sleep" /\ wfs'.pc # "sleep")
          => /\ wfs'.pc = (IF nFail' # nFail \/ stores[db].state # "open"
                           THEN "err" ELSE "check")
     /\ wfs.pc = "err" => wfs'.pc \in {"err", "check"} /\ (wfs'.pc = "check" => wfs'.seen = -1)
    ]_vars
\* A call that polled at least once has returned nil, another one an error.
C14_Witness == wfs.pc = "ok" /\ wfs.seen >= 0 /\ IsCurrent(cs)
C14_WitnessErr == wfs.pc = "err" /\ nFail > 0 /\ ~IsCurrent(cs)
\* C15: the map PrepareTxOutputs returns has, for each address some output
\* resolves to, the sum of the values of those outputs, and no other entry;
\* outputs that do not resolve to an address are skipped.
PaysTo(t, a) ==
  {i \in DOMAIN t : ~ScriptAddress(t[i].pkScript).err /\ ScriptAddress(t[i].pkScript).addr = a}
RECURSIVE SumOver(_, _)
SumOver(t, idx) ==
  IF idx = {} THEN 0
  ELSE LET i == CHOOSE j \in idx : TRUE IN t[i].value + SumOver(t, idx \ {i})
C15_OutputSums ==
  result.done =>
    /\ DOMAIN result.out = {a \in {"a", "b"} : PaysTo(tx, a) # {}}
    /\ \A a \in DOMAIN result.out : result.out[a] = SumOver(tx, PaysTo(tx, a))
\* Two outputs to one address and an output that is skipped.
C15_Witness ==
  /\ result.done /\ Cardinality(PaysTo(tx, "a")) >= 2 /\ result.out["a"] = 2 * MaxValue
  /\ \E i \in DOMAIN tx : ScriptAddress(tx[i].pkScript).err /\ tx[i].value > 0
\* C16: an AddAddresses call whose Update failed has returned the error with
\* its addresses in w.addresses, and a restart of that Rescan or a later one
\* whose last step succeeds has applied them to the Rescan then live.
C16_FailedUpdateKept ==
  [][/\ lastAdd'.result = "update" => addresses' = lastAdd'.before \o lastAdd'.args
     /\ \A l \in Listeners :
          (/\ pc[l] = "r_apply" /\ pc'[l] = "r_unlock" /\ gaveUp'[l] = ""
           /\ lastAdd.result = "update" /\ lastAdd.session # Nil /\ lastAdd.session <= l)
          => DecodeAll(lastAdd.args) \subseteq Applied(rescan)']_vars
C16_Witness ==
  \E l \in Listeners :
    /\ pc[l] = "r_unlock" /\ gaveUp[l] = "" /\ made[l] # Nil /\ rescan = made[l]
    /\ lastAdd.result = "update" /\ lastAdd.session # Nil /\ lastAdd.session <= l
    /\ sessions[lastAdd.session].addrs = {}
    /\ DecodeAll(lastAdd.args) \subseteq Applied(rescan)
\* C17: watchedAddresses only grows: over every step of AddAddresses,
\* StartWatching, restart and Close the list after the step has the list before
\* the step as a prefix; nothing is removed or reordered, and the list is not
\* reset when a restart wipes the engine's storage.
IsPrefix(s, u) == Len(s) <= Len(u) /\ SubSeq(u, 1, Len(s)) = s

C17_AddressesOnlyGrow == [][IsPrefix(addresses, addresses')]_vars

\* Two calls have added addresses and a restart has rebuilt the engine over a
\* wiped directory.
C17_Witness ==
  /\ Len(addresses) >= 2 /\ nAdds = 2
  /\ \E l \in Listeners : made[l] # Nil /\ rescan = made[l] /\ pc[l] = "r_unlock"

\* C18: once Close has been called while a WaitForSync call of the caller is
\* polling, that call ends: it returns, or the process ends (a panic, or the
\* log.Fatalf of main when Close returns an error).
C18_CloseEndsWaitForSync ==
  (fullClose /\ wfs.pc \in {"check", "sleep"})
    ~> (wfs.pc \in {"ok", "err"} \/ crashed # "" \/ closeResult = "err")

\* C19: teardown and rebuild ordering. An engine is stopped only when no Rescan
\* on it is still running; a store is closed only when its engine is no longer
\* running; restart deletes the data directory and the store file only with
\* the store closed and the engine stopped, and builds the new pair only with
\* both deleted; restart starts the new Rescan only on the new engine and only
\* when that engine is current (its WaitForSync has returned nil).
DrainedBeforeEngineStop ==
  \A e \in Pairs :
    (engines[e].state = "running" /\ engines'[e].state = "stopped")
      => \A s \in Listeners : sessions[s].cs = e => sessions[s].state # "running"

EngineStoppedBeforeStoreClose ==
  \A d \in Pairs :
    (stores[d].state = "open" /\ stores'[d].state = "closed")
      => engines[d].state # "running"

DeleteBetweenCloseAndStart ==
  \A l \in Listeners :
    /\ (pc[l] \in {"r_rmdir", "r_rmdb"} /\ disk' # disk)
         => (stores[db].state = "closed" /\ engines[cs].state = "stopped")
    /\ (pc[l] = "r_start" /\ Built' # Built) => (disk.dbFile = Nil /\ ~disk.dataDir)

WatchAfterSync ==
  \A l \in Listeners :
    (made'[l] # made[l] /\ made'[l] # Nil)
      => (IsCurrent(cs) /\ engines[cs].state = "running" /\ sessions'[made'[l]].cs = cs)

C19_TeardownOrder ==
  [][/\ DrainedBeforeEngineStop
     /\ EngineStoppedBeforeStoreClose
     /\ DeleteBetweenCloseAndStart
     /\ WatchAfterSync]_vars

\* C20: restarting is true in exactly the states where some restart is
\* between its step 1 (restarting = true) and its deferred final step
\* (restarting = false), also when a second restart begins before the first
\* has finished.
BetweenFirstAndFinalStep(l) == InRestart(l) /\ pc[l] # "r_lock"

C20_RestartingExact == restarting <=> \E l \in Listeners : BetweenFirstAndFinalStep(l)

\* C21: at most one restart is in progress at any time, although every
\* StartWatching, the one inside a restart too, starts a listener goroutine
\* that can call restart.
RestartsInProgress == {l \in Listeners : InRestart(l)}

C21_SingleRestart == Cardinality(RestartsInProgress) <= 1

\* C22: at most one Rescan is active (started and not yet stopped), and the
\* handle w.rescan is non-nil exactly while the Watcher is watching: it names
\* the active Rescan, or the Rescan that a stop() in progress has signalled
\* and is about to clear; it is nil while there is no active Rescan, before
\* StartWatching and once Close has returned.
Active == {s \in Listeners : sessions[s].state = "running"}
StopInProgress == \E p \in Procs : pc[p] = "stop_wait"

C22_WitnessClosed == pc[CloserId] = "closed" /\ rescan = Nil /\ Created # {}

\* C23: the mutex is held only for the in-memory mutation: it is not held
\* while a Rescan update call is in progress, so no restart waits for the
\* mutex behind an update.
UpdateInProgress == callerPc = "aa_update"
WaitsForMutex(l) == pc[l] \in {"r_lock", "r_snap", "r_unlock"} /\ mu

C23_MutexOnlyInMemory ==
  /\ ~(mu /\ UpdateInProgress)
  /\ \A l \in Listeners : ~(WaitsForMutex(l) /\ UpdateInProgress)

\* C24: under every interleaving of Close with a restart, no quit channel is
\* closed twice, and no stop() reaches w.rescan.WaitForShutdown() with the
\* handle already cleared by another activity.
QuitClosedTwice == crashed = "close of closed channel"
AwaitsClearedHandle == Alive /\ \E p \in Procs : pc[p] = "stop_wait" /\ rescan = Nil

C24_StopOncePerSession == ~QuitClosedTwice /\ ~AwaitsClearedHandle

\* C25: the FullWatcher calls the handlers for startBlock, startBlock + 1,
\* ... in consecutive order, each height once; a height above the engine's
\* best height is waited for, so the loop is never past the first height
\* that has no block yet.
FullConsecutive ==
  \A i \in 1..Len(fw.delivered) : fw.delivered[i] = fw.startBlock + i - 1

FullWaitsForBlock == fw.pc # "new" => fw.height <= fw.best + 1

C25_FullDelivery == FullConsecutive /\ FullWaitsForBlock

====
